---- MODULE Spec2Model ----
(***************************************************************************)
(* The Intelligent Content API (app/main.py, app/utils/auth.py).           *)
(*                                                                         *)
(* Specifications of this module.                                          *)
(*   Spec        the HTTP service: signup, login and the four content      *)
(*               handlers over the users and contents tables.  The         *)
(*               handlers are coroutines of one asyncio event loop, so an  *)
(*               action is the run of a handler between two of its         *)
(*               suspension points; the only one is the awaited provider   *)
(*               call of analyze_text_with_llm.                            *)
(*   FairSpec    Spec, with a handler whose awaited call has ended always  *)
(*               resumed.                                                  *)
(*   SpecAnalyze one run of analyze_text_with_llm on one text and one      *)
(*               provider outcome.                                         *)
(* Texts are sequences of one-character strings.  An Optional value is a   *)
(* sequence of length 0 (None) or 1.                                       *)
(***************************************************************************)
EXTENDS Integers, Sequences, FiniteSets, TLC

VARIABLES users, contents, nextId, pending, clock, configured, resp, an

vars == <<users, contents, nextId, pending, clock, configured, resp, an>>

svcVars == <<users, contents, nextId, pending, clock, configured, resp>>

(***************************************************************************)
(* Bounds of the model.                                                    *)
(***************************************************************************)
\* content rows ever inserted
MaxContents == 2
\* clock instants explored on each side of the token lifetime
MaxTime == 1
\* padding lengths explored on each side of the summary limit
MaxPad == 1

(***************************************************************************)
(* Optional values.                                                        *)
(***************************************************************************)
None == <<>>

Some(x) == <<x>>

IsSet(o) == o # None

(***************************************************************************)
(* Texts.                                                                  *)
(***************************************************************************)
Pad(n) == [i \in 1..n |-> "x"]

\* str.lower() on the characters the model uses
LowerChar(c) ==
    CASE c = "G" -> "g"
      [] c = "O" -> "o"
      [] c = "D" -> "d"
      [] c = "H" -> "h"
      [] c = "A" -> "a"
      [] c = "T" -> "t"
      [] c = "E" -> "e"
      [] c = "S" -> "s"
      [] OTHER -> c

Lower(t) == [i \in 1..Len(t) |-> LowerChar(t[i])]

\* the `in` operator on strings: some slice of t equals w
Contains(t, w) ==
    \E i \in 1..(Len(t) - Len(w) + 1) : SubSeq(t, i, i + Len(w) - 1) = w

\* any(w in lowered for w in ws), ws a list scanned left to right
RECURSIVE AnyIn(_, _)
AnyIn(lowered, ws) ==
    IF ws = <<>> THEN FALSE
    ELSE IF Contains(lowered, Head(ws)) THEN TRUE
    ELSE AnyIn(lowered, Tail(ws))

PositiveWords ==
    << <<"g","o","o","d">>, <<"g","r","e","a","t">>,
       <<"e","x","c","e","l","l","e","n","t">>, <<"l","o","v","e">>,
       <<"h","a","p","p","y">> >>

NegativeWords ==
    << <<"b","a","d">>, <<"t","e","r","r","i","b","l","e">>,
       <<"a","w","f","u","l">>, <<"h","a","t","e">>, <<"s","a","d">> >>

SummaryLimit == 200

Ellipsis == <<".", ".", ".">>

\* t[:n]
Slice(t, n) == SubSeq(t, 1, IF n < Len(t) THEN n ELSE Len(t))

MutSentimentOf(t) ==
    LET lowered == Lower(t)
    IN  IF AnyIn(lowered, NegativeWords) THEN "Negative"
        ELSE IF AnyIn(lowered, PositiveWords) THEN "Positive"
        ELSE "Neutral"

SentimentOf(t) ==
    LET lowered == Lower(t)
    IN  IF AnyIn(lowered, PositiveWords) THEN "Positive"
        ELSE IF AnyIn(lowered, NegativeWords) THEN "Negative"
        ELSE "Neutral"

SummaryOf(t) ==
    IF Len(t) <= SummaryLimit THEN t ELSE Slice(t, SummaryLimit) \o Ellipsis

\* simple_fallback(t): the pair (summary, sentiment), both set
simple_fallback(t) ==
    [summary |-> Some(SummaryOf(t)), sentiment |-> Some(SentimentOf(t))]

(***************************************************************************)
(* The provider call of analyze_text_with_llm.  A reply is what the awaited *)
(* chat.completions.create produced: an exception, or a completion whose   *)
(* message content is a string that json.loads does or does not accept.    *)
(* A JSON null is None.                                                    *)
(***************************************************************************)
Reply(raises, json, isobj, keys, summary, sentiment) ==
    [raises |-> raises, json |-> json, isobj |-> isobj, keys |-> keys,
     summary |-> summary, sentiment |-> sentiment]

ProviderSummary == <<"s","u","m">>

\* network or auth error raised by the call
ReplyRaises == Reply(TRUE, FALSE, FALSE, {}, None, None)

\* content is not JSON
ReplyNotJson == Reply(FALSE, FALSE, FALSE, {}, None, None)

\* content is a JSON array
ReplyNotObject == Reply(FALSE, TRUE, FALSE, {}, None, None)

\* {"sentiment": "Positive"}
ReplyNoSummary == Reply(FALSE, TRUE, TRUE, {"sentiment"}, None, Some("Positive"))

\* {"summary": "sum"}
ReplyNoSentiment == Reply(FALSE, TRUE, TRUE, {"summary"}, Some(ProviderSummary), None)

\* {"summary": "sum", "sentiment": "Positive"}
ReplyOk ==
    Reply(FALSE, TRUE, TRUE, {"summary", "sentiment"}, Some(ProviderSummary), Some("Positive"))

\* {"summary": "sum", "sentiment": "Mixed"}
ReplyMixed ==
    Reply(FALSE, TRUE, TRUE, {"summary", "sentiment"}, Some(ProviderSummary), Some("Mixed"))

\* {"summary": null, "sentiment": "Positive"}
ReplyNullSummary ==
    Reply(FALSE, TRUE, TRUE, {"summary", "sentiment"}, None, Some("Positive"))

\* {"summary": null, "sentiment": "Mixed"}
ReplyNullMixed ==
    Reply(FALSE, TRUE, TRUE, {"summary", "sentiment"}, None, Some("Mixed"))

ProviderReplies ==
    {ReplyRaises, ReplyNotJson, ReplyNotObject, ReplyNoSummary, ReplyNoSentiment,
     ReplyOk, ReplyMixed, ReplyNullSummary, ReplyNullMixed}

NoPair == [summary |-> None, sentiment |-> None]

Returned(pair) == [raised |-> FALSE, value |-> pair]

Raised == [raised |-> TRUE, value |-> NoPair]

\* the body of the try block, lines 82-100: the awaited call, json.loads,
\* data["summary"], data["sentiment"]
TryProvider(reply) ==
    IF reply.raises THEN Raised
    ELSE IF ~reply.json THEN Raised
    ELSE IF ~reply.isobj THEN Raised
    ELSE IF "summary" \notin reply.keys THEN Raised
    ELSE IF "sentiment" \notin reply.keys THEN Raised
    ELSE Returned([summary |-> reply.summary, sentiment |-> reply.sentiment])

MutExceptHandler(text) == Raised

\* except Exception: log and return simple_fallback(text)
ExceptHandler(text) == Returned(simple_fallback(text))

\* analyze_text_with_llm from the point where the awaited call has ended
AfterAwait(text, reply) ==
    LET r == TryProvider(reply)
    IN  IF r.raised THEN ExceptHandler(text) ELSE r

\* not OPENAI_API_KEY or openai_client is None
Unconfigured(key) == ~key

(***************************************************************************)
(* SpecAnalyze: one run of analyze_text_with_llm.                          *)
(***************************************************************************)
Words ==
    {PositiveWords[i] : i \in 1..Len(PositiveWords)}
    \cup {NegativeWords[i] : i \in 1..Len(NegativeWords)}
    \cup { <<>>, <<" ">>, <<"G","O","O","D">>, <<"H","a","t","e">>,
           <<"g","o","o">>, <<"s","a">> }

PadLens == (0..MaxPad) \cup ((SummaryLimit - MaxPad)..(SummaryLimit + MaxPad))

GreatDay == <<"g","r","e","a","t"," ","d","a","y">>

IHateThis == <<"I"," ","h","a","t","e"," ","t","h","i","s">>

LongX == Pad(SummaryLimit + 50)

Texts ==
    {Pad(n) \o w1 \o w2 : n \in PadLens, w1 \in Words, w2 \in Words}
    \cup {GreatDay, IHateThis, LongX}

AnIdle ==
    [pc |-> "idle", text |-> <<>>, key |-> FALSE, reply |-> ReplyRaises,
     calls |-> 0, out |-> Raised]

\* lines 76-79, and the start of the awaited call on line 82
AnalyzeStart ==
    /\ an.pc = "start"
    /\ IF Unconfigured(an.key)
         THEN an' = [an EXCEPT !.pc = "done", !.out = Returned(simple_fallback(an.text))]
         ELSE an' = [an EXCEPT !.pc = "awaiting", !.calls = @ + 1]
    /\ UNCHANGED svcVars

\* lines 98-105: the call has ended, by a completion or by an exception
AnalyzeResume ==
    /\ an.pc = "awaiting"
    /\ an' = [an EXCEPT !.pc = "done", !.out = AfterAwait(an.text, an.reply)]
    /\ UNCHANGED svcVars

(***************************************************************************)
(* The service.                                                            *)
(***************************************************************************)
Emails == {"a@x.io", "b@x.io"}

Passwords == {"pw", "other"}

\* the password a signup request carries
SignupPasswords == {"pw"}

ACCESS_TOKEN_EXPIRE_MINUTES == 60

\* the clock, in minutes: the start, and the minutes past a token lifetime
Times == {0} \cup {ACCESS_TOKEN_EXPIRE_MINUTES + t : t \in 1..MaxTime}

\* get_password_hash / verify_password (the salt is left out)
get_password_hash(password) == <<"pbkdf2_sha256", password>>

verify_password(plain, hashed) == hashed = get_password_hash(plain)

(* A bearer token as the server sees it: no Authorization header, a string  *)
(* that is no JWT, or a JWT with a signature that verifies under            *)
(* JWT_SECRET_KEY or not, a "sub" claim or none, and an "exp" claim.        *)
Jwt(sig, sub, exp) == [kind |-> "jwt", sig |-> sig, sub |-> sub, exp |-> exp]

NoToken == [kind |-> "none", sig |-> FALSE, sub |-> None, exp |-> 0]

MalformedToken == [kind |-> "malformed", sig |-> FALSE, sub |-> None, exp |-> 0]

TokenExps == {ACCESS_TOKEN_EXPIRE_MINUTES + t : t \in 0..MaxTime}

\* the tokens a request may carry: none, a malformed one, one whose signature
\* does not verify, and every token signed with the key
Tokens ==
    {NoToken, MalformedToken}
    \cup {Jwt(FALSE, Some(e), ACCESS_TOKEN_EXPIRE_MINUTES + MaxTime) : e \in {"a@x.io"}}
    \cup {Jwt(TRUE, None, ACCESS_TOKEN_EXPIRE_MINUTES + MaxTime)}
    \cup {Jwt(TRUE, Some(e), exp) : e \in Emails, exp \in TokenExps}

\* create_access_token(subject) at time now
create_access_token(subject, now) ==
    Jwt(TRUE, Some(subject), now + ACCESS_TOKEN_EXPIRE_MINUTES)

\* db.query(User).filter(User.email == email).first()
UsersByEmail(email) == {i \in 1..Len(users) : users[i].email = email}

get_user_by_email(email) ==
    IF UsersByEmail(email) = {} THEN None
    ELSE Some(users[CHOOSE i \in UsersByEmail(email) :
                      \A j \in UsersByEmail(email) : i <= j])

Unauthorized(detail) == [ok |-> FALSE, uid |-> 0, status |-> 401, detail |-> detail]

MutJwtDecodeFails(token, now) ==
    \/ token.kind # "jwt"
    \/ ~token.sig

\* jwt.decode raises JWTError: not a JWT, bad signature, or exp < now
JwtDecodeFails(token, now) ==
    \/ token.kind # "jwt"
    \/ ~token.sig
    \/ token.exp < now

\* oauth2_scheme, then get_current_user
get_current_user(token, now) ==
    IF token.kind = "none" THEN Unauthorized("Not authenticated")
    ELSE IF JwtDecodeFails(token, now) THEN Unauthorized("Could not validate credentials.")
    ELSE IF token.sub = None THEN Unauthorized("Could not validate credentials.")
    ELSE LET user == get_user_by_email(token.sub[1])
         IN  IF user = None THEN Unauthorized("Could not validate credentials.")
             ELSE [ok |-> TRUE, uid |-> user[1].id, status |-> 200, detail |-> ""]

(* The text of a create request.                                           *)
ReqTexts == {IHateThis}

\* the replies the provider gives to the service's calls
ServiceReplies == {ReplyRaises, ReplyOk, ReplyNullMixed}

\* ContentOut: id, text, summary, sentiment
ContentOut(row) ==
    [id |-> row.id, text |-> row.text, summary |-> row.summary,
     sentiment |-> row.sentiment]

\* a response: the handler, the status, the detail of an error, the token a
\* login issued, the id of the user the request ran as, the content id of
\* the path, and the content views of the body
Response(op, status, detail, token, uid, target, body) ==
    [op |-> op, status |-> status, detail |-> detail, token |-> token,
     uid |-> uid, target |-> target, body |-> body]

NoResponse == Response("none", 0, "", NoToken, 0, 0, <<>>)

\* rows in descending order of created_at; a row inserted later has the later
\* id and a created_at that is no earlier
RECURSIVE OrderDesc(_)
OrderDesc(rows) ==
    IF rows = {} THEN <<>>
    ELSE LET top == CHOOSE r \in rows : \A q \in rows : q.id <= r.id
         IN  <<top>> \o OrderDesc(rows \ {top})

MutOwnedBy(rows, uid) == rows

\* .filter(Content.user_id == current_user.id)
OwnedBy(rows, uid) == {r \in rows : r.user_id = uid}

\* .filter(Content.id == content_id, Content.user_id == current_user.id).first()
FindOwned(content_id, uid) ==
    LET found == {r \in OwnedBy(contents, uid) : r.id = content_id}
    IN  IF found = {} THEN None ELSE Some(CHOOSE r \in found : TRUE)

SvcInit0 ==
    /\ users = <<>>
    /\ contents = {}
    /\ nextId = 1
    /\ pending = {}
    /\ clock = 0
    /\ resp = NoResponse

Init ==
    /\ SvcInit0
    /\ configured \in BOOLEAN
    /\ an = AnIdle

MutEmailTaken(email) == FALSE

\* existing = db.query(User).filter(User.email == user_in.email).first()
EmailTaken(email) == get_user_by_email(email) # None

\* POST /signup
signup(email, password) ==
    /\ IF EmailTaken(email)
         THEN /\ resp' = Response("signup", 400, "Email already registered.",
                                  NoToken, 0, 0, <<>>)
              /\ UNCHANGED users
         ELSE /\ users' = Append(users, [id |-> Len(users) + 1, email |-> email,
                                         hashed_password |-> get_password_hash(password)])
              /\ resp' = Response("signup", 201, "", NoToken, Len(users) + 1, 0, <<>>)
    /\ UNCHANGED <<contents, nextId, pending, clock, configured, an>>

\* POST /login; the response carries the issued token
login(username, password) ==
    /\ LET user == get_user_by_email(username)
       IN  IF user = None \/ ~verify_password(password, user[1].hashed_password)
             THEN resp' = Response("login", 401, "Incorrect email or password.",
                                   NoToken, 0, 0, <<>>)
             ELSE resp' = Response("login", 200, "",
                                   create_access_token(user[1].email, clock),
                                   user[1].id, 0, <<>>)
    /\ UNCHANGED <<users, contents, nextId, pending, clock, configured, an>>

\* a request the dependency get_current_user turned down
Rejected(op, token, target) ==
    LET auth == get_current_user(token, clock)
    IN  /\ ~auth.ok
        /\ resp' = Response(op, auth.status, auth.detail, NoToken, 0, target, <<>>)
        /\ UNCHANGED <<users, contents, nextId, pending, clock, configured, an>>

\* the id the table gives an inserted row: ids are unique and never reused
NewId == nextId

\* db_models.Content(text=payload.text, owner=current_user): the analysis
\* columns are left unset
NewRow(id, text, uid) ==
    [id |-> id, text |-> text, summary |-> None, sentiment |-> None, user_id |-> uid]

\* content.summary = summary; content.sentiment = sentiment
Analyzed(row, pair) ==
    [row EXCEPT !.summary = pair.summary, !.sentiment = pair.sentiment]

MutCommitted(row) == {}

\* db.add(content); db.commit(): the rows the first commit leaves in the table
Committed(row) == {row}

\* the second db.commit(): UPDATE contents SET summary, sentiment WHERE id.
\* When no row has the id the commit raises and the response is 500.
Matched(table, id) == \E r \in table : r.id = id

Updated(table, id, pair) ==
    {IF r.id = id THEN Analyzed(r, pair) ELSE r : r \in table}

\* lines 171-177 on the table as it is when analyze_text_with_llm has ended
Finish(table, id, result) ==
    IF Matched(table, id) /\ ~result.raised
      THEN /\ contents' = Updated(table, id, result.value)
           /\ resp' = Response("create", 201, "", NoToken, 0, id,
                               [i \in 1..1 |-> ContentOut(
                                   CHOOSE r \in Updated(table, id, result.value) :
                                      r.id = id)])
      ELSE /\ contents' = table
           /\ resp' = Response("create", 500, "Internal Server Error", NoToken, 0,
                               id, <<>>)

\* POST /contents up to the provider call.  With no provider configured
\* analyze_text_with_llm returns without suspending and the handler runs to
\* its end; otherwise the handler is suspended at the awaited call with the
\* row committed.
create_content(token, text) ==
    \/ Rejected("create", token, 0)
    \/ LET auth == get_current_user(token, clock)
           row == NewRow(NewId, text, auth.uid)
       IN  /\ auth.ok
           /\ nextId <= MaxContents
           /\ nextId' = NewId + 1
           /\ IF Unconfigured(configured)
                THEN /\ Finish(contents \cup Committed(row), row.id,
                               Returned(simple_fallback(text)))
                     /\ UNCHANGED pending
                ELSE /\ contents' = contents \cup Committed(row)
                     /\ pending' = pending \cup
                            {[id |-> row.id, text |-> text, ended |-> FALSE]}
                     /\ resp' = Response("create_suspended", 0, "", NoToken,
                                         auth.uid, row.id, <<>>)
           /\ UNCHANGED <<users, clock, configured, an>>

\* the provider call of a suspended create_content ends, by a completion or
\* by an exception
provider_call_ends(p) ==
    /\ p \in pending
    /\ ~p.ended
    /\ pending' = (pending \ {p}) \cup {[p EXCEPT !.ended = TRUE]}
    /\ resp' = NoResponse
    /\ UNCHANGED <<users, contents, nextId, clock, configured, an>>

\* POST /contents from the awaited call, which ended with reply, to the
\* response.  The UPDATE of a row that is gone matches no row and db.commit()
\* raises: the response is 500.
create_content_resume(p, reply) ==
    /\ p \in pending
    /\ p.ended
    /\ pending' = pending \ {p}
    /\ Finish(contents, p.id, AfterAwait(p.text, reply))
    /\ UNCHANGED <<users, nextId, clock, configured, an>>

\* GET /contents
list_contents(token) ==
    \/ Rejected("list", token, 0)
    \/ LET auth == get_current_user(token, clock)
       IN  /\ auth.ok
           /\ resp' = Response("list", 200, "", NoToken, auth.uid, 0,
                               [i \in 1..Cardinality(OwnedBy(contents, auth.uid)) |->
                                  ContentOut(OrderDesc(OwnedBy(contents, auth.uid))[i])])
           /\ UNCHANGED <<users, contents, nextId, pending, clock, configured, an>>

\* GET /contents/{content_id}
get_content(token, content_id) ==
    \/ Rejected("get", token, 0)
    \/ LET auth == get_current_user(token, clock)
           content == FindOwned(content_id, auth.uid)
       IN  /\ auth.ok
           /\ IF content = None
                THEN resp' = Response("get", 404, "Content not found.", NoToken,
                                      auth.uid, content_id, <<>>)
                ELSE resp' = Response("get", 200, "", NoToken, auth.uid, content_id,
                                      <<ContentOut(content[1])>>)
           /\ UNCHANGED <<users, contents, nextId, pending, clock, configured, an>>

\* DELETE /contents/{content_id}
delete_content(token, content_id) ==
    \/ Rejected("delete", token, 0)
    \/ LET auth == get_current_user(token, clock)
           content == FindOwned(content_id, auth.uid)
       IN  /\ auth.ok
           /\ IF content = None
                THEN /\ resp' = Response("delete", 404, "Content not found.", NoToken,
                                         auth.uid, content_id, <<>>)
                     /\ UNCHANGED contents
                ELSE /\ contents' = contents \ {content[1]}
                     /\ resp' = Response("delete", 204, "", NoToken, auth.uid,
                                         content_id, <<>>)
           /\ UNCHANGED <<users, nextId, pending, clock, configured, an>>

\* time passes
Tick ==
    /\ \E t \in Times : t > clock /\ clock' = t
    /\ resp' = NoResponse
    /\ UNCHANGED <<users, contents, nextId, pending, configured, an>>

ContentIds == 1..MaxContents

Next ==
    \/ \E e \in Emails, pw \in SignupPasswords : signup(e, pw)
    \/ \E e \in Emails, pw \in Passwords : login(e, pw)
    \/ \E tok \in Tokens, text \in ReqTexts : create_content(tok, text)
    \/ \E p \in pending : provider_call_ends(p)
    \/ \E p \in pending, r \in ServiceReplies : create_content_resume(p, r)
    \/ \E tok \in Tokens : list_contents(tok)
    \/ \E tok \in Tokens, id \in ContentIds : get_content(tok, id)
    \/ \E tok \in Tokens, id \in ContentIds : delete_content(tok, id)
    \/ Tick

Spec == Init /\ [][Next]_vars

\* the event loop resumes a handler whose awaited call has ended; nothing
\* makes the provider reply
FairSpec ==
    Spec /\ WF_vars(\E p \in pending, r \in ServiceReplies : create_content_resume(p, r))

(***************************************************************************)
(* Properties.                                                             *)
(***************************************************************************)
Rows(id) == {r \in contents : r.id = id}

NotFound(op, uid, target) ==
    Response(op, 404, "Content not found.", NoToken, uid, target, <<>>)

\* C1: a list response holds only rows of the user the request ran as, and a
\* get or delete of an id that user owns no row under, whether another
\* user's row or no row at all, ends in the one 404 "Content not found."
\* response and leaves the table as it was.
C1_OwnershipIsolation ==
    [][ /\ (resp'.op = "list" /\ resp'.status = 200) =>
              \A i \in 1..Len(resp'.body) :
                 \E r \in contents' : /\ r.id = resp'.body[i].id
                                      /\ r.user_id = resp'.uid
                                      /\ ContentOut(r) = resp'.body[i]
        /\ (/\ resp'.op \in {"get", "delete"}
            /\ resp'.uid # 0
            /\ ~\E r \in contents : r.id = resp'.target /\ r.user_id = resp'.uid) =>
              /\ resp' = NotFound(resp'.op, resp'.uid, resp'.target)
              /\ contents' = contents
      ]_vars

\* a delete was answered 404 while another user's row with that id is there
C1_Witness ==
    /\ resp.op = "delete"
    /\ resp.status = 404
    /\ \E r \in contents : r.id = resp.target /\ r.user_id # resp.uid /\ resp.uid # 0
    /\ \E r \in contents : r.user_id = resp.uid

Registered(email) == \E i \in 1..Len(users) : users[i].email = email

\* C2: no two users share an email, and a signup for a registered email is
\* answered 400 "Email already registered." and adds no user.
C2_EmailUnique ==
    [][ /\ \A i, j \in 1..Len(users') :
              users'[i].email = users'[j].email => i = j
        /\ \A e \in Emails, pw \in SignupPasswords :
              (signup(e, pw) /\ Registered(e)) =>
                 /\ resp'.status = 400
                 /\ resp'.detail = "Email already registered."
                 /\ users' = users
      ]_vars

\* a signup was turned down with both emails registered
C2_Witness ==
    /\ resp.op = "signup"
    /\ resp.status = 400
    /\ Len(users) = 2

\* valid signature, expiry not passed, subject the email of a user
TokenValid(tok) ==
    /\ tok.kind = "jwt"
    /\ tok.sig
    /\ tok.exp >= clock
    /\ tok.sub # None
    /\ Registered(tok.sub[1])

StoreUnchanged == contents' = contents /\ pending' = pending /\ nextId' = nextId

\* the step is one of a content handler on a request carrying tok
ContentRequest(tok) ==
    \/ /\ resp'.op \in {"create", "create_suspended"}
       /\ \E text \in ReqTexts : create_content(tok, text)
    \/ /\ resp'.op = "list"
       /\ list_contents(tok)
    \/ /\ resp'.op = "get"
       /\ \E id \in ContentIds : get_content(tok, id)
    \/ /\ resp'.op = "delete"
       /\ \E id \in ContentIds : delete_content(tok, id)

\* C3: no step of a content handler given a valid token answers 401, no
\* step of a content handler given any other token answers anything but 401,
\* and a step that answers 401 leaves the content store as it was.
C3_TokenRequired ==
    [][ /\ \A tok \in Tokens :
              IF TokenValid(tok)
                THEN resp'.status = 401 => ~ContentRequest(tok)
                ELSE resp'.status # 401 => ~ContentRequest(tok)
        /\ resp'.status = 401 => StoreUnchanged
      ]_vars

\* a content request was turned down after tokens have expired, with users
\* and rows in the store
C3_Witness ==
    /\ resp.op = "delete"
    /\ resp.status = 401
    /\ resp.detail = "Could not validate credentials."
    /\ clock > ACCESS_TOKEN_EXPIRE_MINUTES
    /\ Len(users) = 2
    /\ contents # {}

FailingReplies ==
    {ReplyRaises, ReplyNotJson, ReplyNotObject, ReplyNoSummary, ReplyNoSentiment}

ParsedReplies == {ReplyOk, ReplyMixed, ReplyNullSummary, ReplyNullMixed}

\* C4: analyze_text_with_llm ends by returning a pair, never by raising;
\* with no provider configured or a failing provider call the pair is the
\* fallback's, and with a parsed reply it is the reply's pair.
C4_NeverFails ==
    an.pc = "done" =>
        /\ ~an.out.raised
        /\ DOMAIN an.out.value = {"summary", "sentiment"}
        /\ (~an.key \/ an.reply \in FailingReplies) =>
              an.out.value = simple_fallback(an.text)
        /\ (an.key /\ an.reply \in ParsedReplies) =>
              an.out.value = [summary |-> an.reply.summary,
                              sentiment |-> an.reply.sentiment]

\* the provider's reply lacked "sentiment" and the fallback pair came back
C4_Witness ==
    /\ an.pc = "done"
    /\ an.key
    /\ an.reply = ReplyNoSentiment
    /\ an.text = IHateThis
    /\ an.out = Returned([summary |-> Some(IHateThis), sentiment |-> Some("Negative")])

Sentiments == {"Positive", "Negative", "Neutral"}

\* C5: the sentiment of every content row, and of every create response, is
\* absent or one of Positive, Negative, Neutral.
C5_SentimentEnum ==
    /\ \A r \in contents : r.sentiment = None \/ r.sentiment[1] \in Sentiments
    /\ (resp.op = "create" /\ resp.status = 201) =>
          \A i \in 1..Len(resp.body) :
             resp.body[i].sentiment # None /\ resp.body[i].sentiment[1] \in Sentiments

PositiveMarkers ==
    { <<"g","o","o","d">>, <<"g","r","e","a","t">>,
      <<"e","x","c","e","l","l","e","n","t">>, <<"l","o","v","e">>,
      <<"h","a","p","p","y">> }

NegativeMarkers ==
    { <<"b","a","d">>, <<"t","e","r","r","i","b","l","e">>,
      <<"a","w","f","u","l">>, <<"h","a","t","e">>, <<"s","a","d">> }

\* some word of ws occurs in t, case ignored
Marked(t, ws) ==
    \E w \in ws : \E i \in 1..Len(t) :
       /\ i + Len(w) - 1 <= Len(t)
       /\ \A j \in 1..Len(w) : LowerChar(t[i + j - 1]) = w[j]

ExpectedSentiment(t) ==
    IF Marked(t, PositiveMarkers) THEN "Positive"
    ELSE IF Marked(t, NegativeMarkers) THEN "Negative"
    ELSE "Neutral"

ExpectedSummary(t, summary) ==
    IF Len(t) <= 200 THEN summary = t
    ELSE /\ Len(summary) = 203
         /\ \A i \in 1..200 : summary[i] = t[i]
         /\ \A i \in 201..203 : summary[i] = "."

\* the run used the fallback
FellBack == an.pc = "done" /\ (~an.key \/ an.reply \in FailingReplies)

\* C6: the fallback's sentiment is Positive when the text holds a positive
\* marker, else Negative when it holds a negative one, else Neutral; its
\* summary is the text when that has at most 200 characters and otherwise
\* its first 200 characters and "...".
C6_Fallback ==
    FellBack =>
        /\ an.out.value.sentiment = Some(ExpectedSentiment(an.text))
        /\ IsSet(an.out.value.summary)
        /\ ExpectedSummary(an.text, an.out.value.summary[1])
        /\ an.text = GreatDay =>
              an.out.value = [summary |-> Some(GreatDay), sentiment |-> Some("Positive")]
        /\ an.text = LongX =>
              /\ Len(an.out.value.summary[1]) = 203
              /\ an.out.value.sentiment = Some("Neutral")
        /\ an.text = <<>> =>
              an.out.value = [summary |-> Some(<<>>), sentiment |-> Some("Neutral")]
        /\ an.text = IHateThis =>
              an.out.value = [summary |-> Some(IHateThis), sentiment |-> Some("Negative")]

\* a text over the limit holding a positive and a negative marker
C6_Witness ==
    /\ FellBack
    /\ an.text = Pad(SummaryLimit) \o <<"b","a","d">> \o <<"g","o","o","d">>
    /\ an.out.value.sentiment = Some("Positive")
    /\ Len(an.out.value.summary[1]) = 203

CreatedView(p) ==
    [id |-> p.id, text |-> p.text, summary |-> None, sentiment |-> None]

InFlight(id) == \E p \in pending : p.id = id

C8_CreateReturns201 ==
    (resp.op = "create" /\ resp.status # 401) =>
        /\ resp.status = 201
        /\ \E r \in contents : resp.body = <<ContentOut(r)>> /\ r.id = resp.target

\* C9: every content row has both summary and sentiment absent or both set.
C9_BothOrNeither ==
    \A r \in contents : (r.summary = None) <=> (r.sentiment = None)

\* C10: every suspended create request is eventually over with its row
\* analysed: summary and sentiment set.
C10_EventuallyAnalyzed ==
    \A id \in ContentIds :
       InFlight(id) ~>
          (~InFlight(id) /\ \E r \in contents :
                               r.id = id /\ r.summary # None /\ r.sentiment # None)

AnalyzeInit ==
    /\ SvcInit0
    /\ configured = FALSE
    /\ an \in {[pc |-> "start", text |-> t, key |-> k, reply |-> r,
                calls |-> 0, out |-> Raised] :
                  t \in Texts, k \in BOOLEAN, r \in ProviderReplies}

AnalyzeNext == AnalyzeStart \/ AnalyzeResume

SpecAnalyze == AnalyzeInit /\ [][AnalyzeNext]_vars

====
